---- MODULE Spec2Model ----
(***************************************************************************)
(* Model of fidelity/disp_div.py: the Dividend context manager (load and   *)
(* filter a Fidelity CSV export) and dividend_csv_process (report views    *)
(* dispatched through the module-level report_map).                        *)
(*                                                                         *)
(* Text is a tuple of one-character strings, so that case folding, the     *)
(* substring test, the conversion of cells and the printing of totals are  *)
(* computed, not assumed. A column of the frame has the dtype pandas gives *)
(* it, and its numbers are int64, uint64 or float64 values.                *)
(***************************************************************************)
EXTENDS Integers, Sequences, FiniteSets, TLC

\* Most rows a file of the model holds.
MaxRows == 3
\* Most rows of a file that lacks one of its columns.
MaxRowsLacking == 1
\* Most invocations of dividend_csv_process in one process (library use).
MaxCalls == 3

----------------------------------------------------------------------------
(* Text *)

Uppers == <<"A", "B", "C", "D", "E", "F", "G", "H", "I", "J", "K", "L", "M",
            "N", "O", "P", "Q", "R", "S", "T", "U", "V", "W", "X", "Y", "Z">>
Lowers == <<"a", "b", "c", "d", "e", "f", "g", "h", "i", "j", "k", "l", "m",
            "n", "o", "p", "q", "r", "s", "t", "u", "v", "w", "x", "y", "z">>
Digits == <<"0", "1", "2", "3", "4", "5", "6", "7", "8", "9">>
\* The white space characters (tab, line feed, vertical tab, form feed,
\* carriage return) and the printable ASCII characters in code point order
\* (Python compares str by code point), but the backquote, which a string
\* here cannot hold.
Ascii ==
    <<"\t", "\n", "", "\f", "\r">> \o
    <<" ", "!", "\"", "#", "$", "%", "&", "'", "(", ")", "*", "+", ",", "-", ".", "/">>
    \o Digits \o <<":", ";", "<", "=", ">", "?", "@">> \o Uppers
    \o <<"[", "\\", "]", "^", "_">> \o Lowers \o <<"{", "|", "}", "~">>

Ord(c) == CHOOSE i \in 1..Len(Ascii) : Ascii[i] = c

\* str.upper() on one character
Upper(c) ==
    IF \E i \in 1..Len(Lowers) : Lowers[i] = c
    THEN Uppers[CHOOSE i \in 1..Len(Lowers) : Lowers[i] = c]
    ELSE c

\* str.upper()
UpperStr(s) == [i \in 1..Len(s) |-> Upper(s[i])]

\* Series.str.contains(pat, case=False) for a pattern without regex
\* metacharacters: pat occurs in s at some offset, letters compared
\* regardless of case.
Contains(s, pat) ==
    \E i \in 1..(Len(s) - Len(pat) + 1) :
        \A j \in 1..Len(pat) : Upper(s[i + j - 1]) = Upper(pat[j])

\* Python's str < str: lexicographic by code point, a proper prefix first.
StrLess(a, b) ==
    \E k \in 1..(Len(b)) :
        /\ k <= Len(a) + 1
        /\ \A j \in 1..(k - 1) : a[j] = b[j]
        /\ \/ k = Len(a) + 1
           \/ (k <= Len(a) /\ Ord(a[k]) < Ord(b[k]))

RECURSIVE Ascending(_)
\* The members of a set of integers, ascending.
Ascending(S) ==
    IF S = {} THEN <<>>
    ELSE LET m == CHOOSE x \in S : \A y \in S : x <= y
         IN <<m>> \o Ascending(S \ {m})

----------------------------------------------------------------------------
(* Natural numbers of any size, for the arithmetic of int64 and float64:   *)
(* the digits of the number to the base 2^15, lowest first, the highest    *)
(* one not 0 (zero is the empty sequence). These definitions are           *)
(* arithmetic alone; the values and the converters below are computed with *)
(* them.                                                                   *)

LimbBits == 15
Base == 2 ^ LimbBits

Limb(a, i) == IF i >= 1 /\ i <= Len(a) THEN a[i] ELSE 0

\* a without its leading zero digits
Trim(a) ==
    LET used == {i \in 1..Len(a) : a[i] # 0}
    IN IF used = {} THEN <<>>
       ELSE SubSeq(a, 1, CHOOSE i \in used : \A j \in used : j <= i)

\* the number of a TLC integer n >= 0
FromInt(n) == Trim(<<n % Base, (n \div Base) % Base, n \div (Base * Base)>>)

\* the TLC integer of a number below 2^31
ToInt(a) == Limb(a, 1) + Base * Limb(a, 2) + Base * Base * Limb(a, 3)

\* a + b
AddBig(a, b) ==
    LET n == IF Len(a) > Len(b) THEN Len(a) ELSE Len(b)
        t == [i \in 1..(n + 1) |-> Limb(a, i) + Limb(b, i)]
        carry == [i \in 1..(n + 1) |->
                    IF \E j \in 1..(i - 1) :
                          t[j] >= Base /\ \A k \in (j + 1)..(i - 1) : t[k] = Base - 1
                    THEN 1 ELSE 0]
    IN Trim([i \in 1..(n + 1) |-> (t[i] + carry[i]) % Base])

\* a - b for a >= b
Minus(a, b) ==
    LET d == [i \in 1..Len(a) |-> a[i] - Limb(b, i)]
        borrow == [i \in 1..Len(a) |->
                     IF \E j \in 1..(i - 1) :
                           d[j] < 0 /\ \A k \in (j + 1)..(i - 1) : d[k] = 0
                     THEN 1 ELSE 0]
    IN Trim([i \in 1..Len(a) |-> (d[i] - borrow[i] + Base) % Base])

\* a < b
LessBig(a, b) ==
    \/ Len(a) < Len(b)
    \/ /\ Len(a) = Len(b)
       /\ \E k \in 1..Len(a) :
             a[k] < b[k] /\ \A j \in (k + 1)..Len(a) : a[j] = b[j]

\* a * d for a small number d (d < 2^16)
MulSmall(a, d) ==
    AddBig([i \in 1..Len(a) |-> (a[i] * d) % Base],
           <<0>> \o [i \in 1..Len(a) |-> (a[i] * d) \div Base])

RECURSIVE MulBig(_, _)
\* a * b
MulBig(a, b) ==
    IF a = <<>> \/ b = <<>> THEN <<>>
    ELSE IF Len(b) = 1 THEN MulSmall(a, b[1])
    ELSE AddBig(MulSmall(a, b[1]), <<0>> \o MulBig(a, Tail(b)))

\* the number of bits of a
BitLen(a) ==
    IF a = <<>> THEN 0
    ELSE LimbBits * (Len(a) - 1)
         + (CHOOSE k \in 1..LimbBits : 2 ^ (k - 1) <= a[Len(a)] /\ a[Len(a)] < 2 ^ k)

\* bit i of a, the lowest being bit 1
Bit(a, i) == (Limb(a, ((i - 1) \div LimbBits) + 1) \div 2 ^ ((i - 1) % LimbBits)) % 2

\* the lowest n bits of a are all 0
LowZero(a, n) ==
    /\ \A i \in 1..(n \div LimbBits) : Limb(a, i) = 0
    /\ Limb(a, (n \div LimbBits) + 1) % 2 ^ (n % LimbBits) = 0

\* a mod 2^n
LowBits(a, n) ==
    Trim([i \in 1..((n + LimbBits - 1) \div LimbBits) |->
             IF i * LimbBits <= n THEN Limb(a, i)
             ELSE Limb(a, i) % 2 ^ (n - (i - 1) * LimbBits)])

\* a * 2^n
ShiftLeft(a, n) ==
    IF a = <<>> \/ n <= 0 THEN a
    ELSE [i \in 1..(n \div LimbBits) |-> 0] \o MulSmall(a, 2 ^ (n % LimbBits))

\* a \div 2^n
ShiftRight(a, n) ==
    IF n <= 0 THEN a
    ELSE LET w == n \div LimbBits
             r == n % LimbBits
         IN Trim([i \in 1..(Len(a) - w) |->
                     (Limb(a, i + w) \div 2 ^ r)
                     + (Limb(a, i + w + 1) % 2 ^ r) * 2 ^ (LimbBits - r)])

RECURSIVE TimesPow10(_, _)
\* a * 10^k
TimesPow10(a, k) ==
    IF a = <<>> \/ k <= 0 THEN a
    ELSE IF k <= 4 THEN MulSmall(a, 10 ^ k)
    ELSE LET x == TimesPow10(a, k \div 2)
         IN IF x = <<>> THEN x ELSE TimesPow10(x, k - (k \div 2))

RECURSIVE DivWith(_, _, _)
\* the Len(a) digits of the quotient of r * Base^Len(a) + a by the small
\* number d (r < d < 2^16), highest first, and the remainder
DivWith(r, a, d) ==
    IF a = <<>> THEN [q |-> <<>>, r |-> r]
    ELSE IF Len(a) = 1
    THEN [q |-> <<(r * Base + a[1]) \div d>>, r |-> (r * Base + a[1]) % d]
    ELSE LET h == Len(a) \div 2
             hi == DivWith(r, SubSeq(a, h + 1, Len(a)), d)
             lo == DivWith(hi.r, SubSeq(a, 1, h), d)
         IN [q |-> hi.q \o lo.q, r |-> lo.r]

\* quotient and remainder of a by the small number d
DivSmall(a, d) ==
    LET x == DivWith(0, a, d)
    IN [q |-> Trim([i \in 1..Len(a) |-> x.q[Len(a) + 1 - i]]), r |-> x.r]

RECURSIVE DivPow10(_, _)
\* a \div 10^k
DivPow10(a, k) ==
    IF k <= 0 \/ a = <<>> THEN a
    ELSE IF k <= 4 THEN DivSmall(a, 10 ^ k).q
    ELSE DivPow10(DivPow10(a, k \div 2), k - (k \div 2))

\* The digit of a quotient: the largest d with d * b <= cur, for cur < b * Base
\* and b with its highest bit set in its highest digit, found from the
\* estimate est, which is at most 2 above it.
QuotientDigit(cur, b, est) ==
    IF ~LessBig(cur, MulSmall(b, est)) THEN est
    ELSE IF ~LessBig(cur, MulSmall(b, est - 1)) THEN est - 1
    ELSE est - 2

\* The estimate of the digit: the two highest digits of cur by the highest
\* digit of b.
DigitEstimate(cur, b) ==
    LET e == (Limb(cur, Len(b) + 1) * Base + Limb(cur, Len(b))) \div b[Len(b)]
    IN IF e > Base - 1 THEN Base - 1 ELSE e

RECURSIVE DivFrom(_, _, _, _, _)
RECURSIVE DivTake(_, _, _, _, _, _)
\* Long division: the digits i, i - 1, ..., 1 of a are brought down to the
\* remainder rem one by one; q holds the digits of the quotient found. It
\* ends with the quotient and whether the division is exact.
DivFrom(a, b, i, rem, q) ==
    IF i = 0 THEN [q |-> Trim(q), exact |-> rem = <<>>]
    ELSE DivTake(a, b, i, Trim(<<a[i]>> \o rem), q,
                 QuotientDigit(Trim(<<a[i]>> \o rem), b,
                               DigitEstimate(Trim(<<a[i]>> \o rem), b)))

\* The digit d is taken: d * b leaves the remainder.
DivTake(a, b, i, cur, q, d) ==
    DivFrom(a, b, i - 1, IF d = 0 THEN cur ELSE Minus(cur, MulSmall(b, d)), <<d>> \o q)

\* a \div b for b # 0 with its highest bit set in its highest digit
DivAll(a, b) == DivFrom(a, b, Len(a), <<>>, <<>>)

\* a \div b for b # 0, and whether the division is exact. Both are scaled
\* by the power of two that sets the highest bit of the highest digit of b.
DivBig(a, b) ==
    DivAll(ShiftLeft(a, LimbBits * Len(b) - BitLen(b)),
           ShiftLeft(b, LimbBits * Len(b) - BitLen(b)))

\* The n lowest decimal digits of the small number v.
PadSmall(v, n) == [i \in 1..n |-> Digits[((v \div 10 ^ (n - i)) % 10) + 1]]

RECURSIVE Padded(_, _)
RECURSIVE Halves(_, _, _)
\* The decimal digits of a < 10^n, n of them.
Padded(a, n) ==
    IF n <= 4 THEN PadSmall(ToInt(a), n)
    ELSE Halves(a, n, DivPow10(a, n \div 2))

\* The digits of a from those of hi = a \div 10^(n \div 2) and of the rest.
Halves(a, n, hi) ==
    Padded(hi, n - (n \div 2))
    \o Padded(IF hi = <<>> THEN a ELSE Minus(a, TimesPow10(hi, n \div 2)), n \div 2)

RECURSIVE NoLeadingZeros(_)
NoLeadingZeros(t) ==
    IF Len(t) > 1 /\ Head(t) = "0" THEN NoLeadingZeros(Tail(t)) ELSE t

\* The decimal digits of a, as str(int) writes them. A number of n bits has
\* at most n * 0.302 + 1 digits.
Decimal(a) == NoLeadingZeros(Padded(a, ((BitLen(a) * 302) \div 1000) + 1))

\* kept, or kept + 1 when what was cut off is above one half (guard and
\* rest) or is one half (guard alone) and kept is odd
Nearest(kept, guard, rest) ==
    IF guard /\ (rest \/ Limb(kept, 1) % 2 = 1) THEN AddBig(kept, <<1>>) ELSE kept

\* a \div 2^n rounded to nearest, a tie to even; inexact says that a has
\* a fraction below its lowest bit.
RoundShift(a, n, inexact) ==
    IF n <= 0 THEN a
    ELSE Nearest(ShiftRight(a, n), Bit(a, n) = 1, inexact \/ ~LowZero(a, n - 1))

\* the number of 0 bits below the lowest 1 bit of the digit d # 0
LowZerosSmall(d) == CHOOSE k \in 0..(LimbBits - 1) : d % 2 ^ (k + 1) # 0 /\ d % 2 ^ k = 0

\* the number of 0 bits below the lowest 1 bit of a # 0, whose lowest digit
\* that is not 0 is digit w
LowZerosFrom(a, w) == LimbBits * (w - 1) + LowZerosSmall(a[w])

\* the number of 0 bits below the lowest 1 bit of a # 0
LowZeros(a) ==
    LowZerosFrom(a, CHOOSE w \in 1..Len(a) : a[w] # 0 /\ \A j \in 1..(w - 1) : a[j] = 0)

----------------------------------------------------------------------------
(* The values of a column. A float64 is (-1)^neg * M * 2^q with M odd      *)
(* (zero: M empty, q = 0), or +-inf, or NaN; an int64 or uint64 is         *)
(* (-1)^neg * M; a bool is M = 1 or 0; a str is its text s.                *)

\* The bits of the significand.
Precision == 53
\* The exponent of the lowest bit of the smallest subnormal number.
MinExponent == 0 - 1074
\* 2^MaxExponent is the first power of two that is no float64.
MaxExponent == 1024

Val(cls, neg, M, q, s) == [cls |-> cls, neg |-> neg, M |-> M, q |-> q, s |-> s]

NaN == Val("nan", FALSE, <<>>, 0, <<>>)
Inf(neg) == Val("inf", neg, <<>>, 0, <<>>)
Zero(neg) == Val("num", neg, <<>>, 0, <<>>)
IntVal(neg, M) == Val("int", neg /\ M # <<>>, M, 0, <<>>)
Bool(b) == Val("bool", FALSE, IF b THEN <<1>> ELSE <<>>, 0, <<>>)
Str(s) == Val("str", FALSE, <<>>, 0, s)

\* The number (-1)^neg * M * 2^q, M # 0, with M made odd.
Canon(neg, M, q) == Val("num", neg, ShiftRight(M, LowZeros(M)), q + LowZeros(M), <<>>)

\* The float64 of significand M (rounded to the precision) and exponent q.
Rounded(neg, M, q) ==
    IF M = <<>> THEN Zero(neg)
    ELSE IF BitLen(M) + q > MaxExponent THEN Inf(neg)
    ELSE Canon(neg, M, q)

\* (-1)^neg * N * 2^q with its n lowest bits rounded away.
RoundedAt(neg, N, inexact, q, n) ==
    Rounded(neg, RoundShift(N, n, inexact), IF n > 0 THEN q + n ELSE q)

\* The float64 nearest to (-1)^neg * N * 2^q (ties to even); inexact says
\* that the number has a fraction below the lowest bit of N. The bits
\* float64 has no room for are rounded away: those beyond the precision,
\* and those below the lowest exponent.
Float(neg, N, inexact, q) ==
    RoundedAt(neg, N, inexact, q,
              IF BitLen(N) - Precision > MinExponent - q
              THEN BitLen(N) - Precision ELSE MinExponent - q)

\* (-1)^an * A * 2^q + (-1)^bn * B * 2^q in float64, A and B not 0
AddAligned(an, A, bn, B, q) ==
    IF an # bn /\ A = B THEN Zero(FALSE)
    ELSE Float(IF an = bn \/ ~LessBig(A, B) THEN an ELSE bn,
               IF an = bn THEN AddBig(A, B)
               ELSE IF LessBig(A, B) THEN Minus(B, A) ELSE Minus(A, B),
               FALSE, q)

\* a + b in float64
Add(a, b) ==
    IF a.cls = "nan" \/ b.cls = "nan" THEN NaN
    ELSE IF a.cls = "inf" /\ b.cls = "inf" THEN (IF a.neg = b.neg THEN a ELSE NaN)
    ELSE IF a.cls = "inf" THEN a
    ELSE IF b.cls = "inf" THEN b
    ELSE IF a.M = <<>> /\ b.M = <<>> THEN Zero(a.neg /\ b.neg)
    ELSE IF a.M = <<>> THEN b
    ELSE IF b.M = <<>> THEN a
    ELSE AddAligned(a.neg, ShiftLeft(a.M, IF a.q > b.q THEN a.q - b.q ELSE 0),
                    b.neg, ShiftLeft(b.M, IF b.q > a.q THEN b.q - a.q ELSE 0),
                    IF a.q < b.q THEN a.q ELSE b.q)

\* a * b in float64, for finite numbers
Mul(a, b) ==
    IF a.M = <<>> \/ b.M = <<>> THEN Zero(a.neg # b.neg)
    ELSE Float(a.neg # b.neg, MulBig(a.M, b.M), FALSE, a.q + b.q)

\* The float64 of a quotient d of N * 2^110 by D, times 2^q: the quotient has
\* more bits than the precision, and what the division left is below them.
Quotient(neg, d, q) == Float(neg, d.q, ~d.exact, q - 110)

\* a / b in float64, for finite numbers, b not 0
Div(a, b) ==
    IF a.M = <<>> THEN Zero(a.neg # b.neg)
    ELSE Quotient(a.neg # b.neg, DivBig(ShiftLeft(a.M, 110), b.M), a.q - b.q)

\* Series >= 0: a comparison with NaN is False; -0.0 >= 0 is True.
GeZero(a) ==
    CASE a.cls = "nan" -> FALSE
      [] a.cls = "inf" -> ~a.neg
      [] OTHER -> ~a.neg \/ a.M = <<>>

\* A count of cents as text: the dollars, a point and two digits.
Fixed2(neg, c) ==
    (IF neg THEN <<"-">> ELSE <<>>)
    \o Decimal(DivSmall(c, 100).q) \o <<".">> \o PadSmall(DivSmall(c, 100).r, 2)

\* What the format :.2f prints for a float64: the number rounded to two
\* decimals from its binary value (a tie to even); inf and nan print as such.
Format2f(a) ==
    CASE a.cls = "nan" -> <<"n", "a", "n">>
      [] a.cls = "inf" -> (IF a.neg THEN <<"-">> ELSE <<>>) \o <<"i", "n", "f">>
      [] OTHER -> Fixed2(a.neg, IF a.q >= 0 THEN ShiftLeft(MulSmall(a.M, 100), a.q)
                                ELSE RoundShift(MulSmall(a.M, 100), 0 - a.q, FALSE))

----------------------------------------------------------------------------
(* The converters of cells: pandas' precise_xstrtod, floatify,             *)
(* str_to_int64, str_to_uint64 and to_boolean.                             *)

IsDigit(c) == \E i \in 1..Len(Digits) : Digits[i] = c
DigitVal(c) == (CHOOSE i \in 1..Len(Digits) : Digits[i] = c) - 1
AllDigits(t) == \A i \in 1..Len(t) : IsDigit(t[i])
NonDigits == {Ascii[i] : i \in 1..Len(Ascii)} \ {Digits[i] : i \in 1..Len(Digits)}

RECURSIVE DigitsVal(_)
\* The value of a text of digits, a small one.
DigitsVal(s) ==
    IF s = <<>> THEN 0
    ELSE 10 * DigitsVal(SubSeq(s, 1, Len(s) - 1)) + DigitVal(s[Len(s)])

RECURSIVE DigitsBig(_)
\* The value of a text of digits of any length.
DigitsBig(s) ==
    IF Len(s) <= 4 THEN FromInt(DigitsVal(s))
    ELSE LET h == Len(s) \div 2
             hi == DigitsBig(SubSeq(s, 1, h))
             lo == DigitsBig(SubSeq(s, h + 1, Len(s)))
         IN IF hi = <<>> THEN lo
            ELSE IF lo = <<>> THEN TimesPow10(hi, Len(s) - h)
            ELSE AddBig(TimesPow10(hi, Len(s) - h), lo)

\* isspace_ascii of the tokenizer: the space, and the characters from tab
\* to carriage return.
isspace_ascii(c) == c \in {" ", "\t", "\n", "", "\f", "\r"}

RECURSIVE LStrip(_)
\* The text without its leading white space.
LStrip(s) == IF s # <<>> /\ isspace_ascii(Head(s)) THEN LStrip(Tail(s)) ELSE s

RECURSIVE RStrip(_)
\* The text without its trailing white space.
RStrip(s) ==
    IF s # <<>> /\ isspace_ascii(s[Len(s)]) THEN RStrip(SubSeq(s, 1, Len(s) - 1)) ELSE s

\* A text with its sign taken off.
Signed(s) ==
    IF s # <<>> /\ s[1] \in {"+", "-"}
    THEN [neg |-> s[1] = "-", rest |-> Tail(s)]
    ELSE [neg |-> FALSE, rest |-> s]

\* The text before the first character of s that is in cs (all of s if
\* there is none), and the text after that character.
Before(s, cs) ==
    IF \E i \in 1..Len(s) : s[i] \in cs
    THEN SubSeq(s, 1, (CHOOSE i \in 1..Len(s) :
                          s[i] \in cs /\ \A j \in 1..(i - 1) : s[j] \notin cs) - 1)
    ELSE s
After(s, cs) == SubSeq(s, Len(Before(s, cs)) + 2, Len(s))

\* The power of ten 10^k (k <= 308) as the float64 nearest to it: the table
\* e[] of precise_xstrtod.
E10(k) == Float(FALSE, TimesPow10(<<1>>, k), FALSE, 0)

RECURSIVE Accumulated(_, _)
\* number = number * 10. + digit, for the digits of s in turn
Accumulated(number, s) ==
    IF s = <<>> THEN number
    ELSE Accumulated(Add(Mul(number, E10(1)),
                         Float(FALSE, FromInt(DigitVal(Head(s))), FALSE, 0)),
                     Tail(s))

\* The digits before and after the point of a mantissa (whole and frac):
\* precise_xstrtod takes the first 17 of them into the number, counts the
\* other digits before the point into the exponent and drops the others
\* after it.
Mantissa(whole, frac) ==
    [digits |-> SubSeq(whole \o frac, 1,
                       IF Len(whole) + Len(frac) > 17 THEN 17 ELSE Len(whole) + Len(frac)),
     exponent |-> (IF Len(whole) > 17 THEN Len(whole) - 17 ELSE 0)
                  - (IF Len(whole) >= 17 THEN 0
                     ELSE IF Len(frac) > 17 - Len(whole) THEN 17 - Len(whole)
                     ELSE Len(frac))]

RECURSIVE ExponentInt(_, _, _)
\* n = n * 10 + digit for the digits of s in turn, in the 32 bits of the C
\* int n, which wraps around; n is kept as hi * 2^16 + lo.
ExponentInt(hi, lo, s) ==
    IF s = <<>>
    THEN (IF hi >= 32768 THEN hi - 65536 ELSE hi) * 65536 + lo
    ELSE ExponentInt((hi * 10 + ((lo * 10 + DigitVal(Head(s))) \div 65536)) % 65536,
                     (lo * 10 + DigitVal(Head(s))) % 65536,
                     Tail(s))

\* exponent += n or exponent -= n (minus) in the 32 bits of the C int. A
\* sum beyond 2^30 either way stands for every exponent out of the range of
\* float64 on that side: 999 or -999, on the other side when the int wraps
\* around.
ExponentSum(exponent, n, minus) ==
    IF n = 0 - 2147483647 - 1
    THEN (IF exponent >= 0 THEN 0 - 999 ELSE 999)
    ELSE IF (IF minus THEN 0 - n ELSE n) > 1073741824
    THEN (IF exponent > 2147483647 - (IF minus THEN 0 - n ELSE n) THEN 0 - 999 ELSE 999)
    ELSE IF (IF minus THEN 0 - n ELSE n) < 0 - 1073741824
    THEN (IF exponent < (0 - 2147483647 - 1) - (IF minus THEN 0 - n ELSE n)
          THEN 999 ELSE 0 - 999)
    ELSE exponent + (IF minus THEN 0 - n ELSE n)

\* What a conversion to float64 yields: whether the text is a number, the
\* number, and whether the text may be an integer (it has neither a point
\* nor an exponent), then with its sign and the value of its digits.
Converted(ok, number, maybe_int, neg, M) ==
    [ok |-> ok, number |-> number, maybe_int |-> maybe_int, neg |-> neg, M |-> M]
NoNumber == Converted(FALSE, NaN, FALSE, FALSE, <<>>)

\* The end of precise_xstrtod: the number is scaled by the power of ten of
\* its exponent. ERANGE is set for an exponent above 308 and for a result
\* that is infinite.
Scaled(number, exponent) ==
    IF exponent > 308 THEN Inf(number.neg)
    ELSE IF exponent > 0 THEN Mul(number, E10(exponent))
    ELSE IF exponent < 0 - 616 THEN Zero(FALSE)
    ELSE IF exponent < 0 - 308
    THEN Div(Div(number, E10(0 - 308 - exponent)), E10(308))
    ELSE Div(number, E10(0 - exponent))

\* to_double fails when ERANGE is set.
InRange(number, maybe_int, neg, M) ==
    IF number.cls = "inf" THEN NoNumber ELSE Converted(TRUE, number, maybe_int, neg, M)

\* The number of a mantissa and an exponent that were read.
Scanned(neg, mt, exponent, maybe_int, M) ==
    InRange(Scaled(IF neg THEN [Accumulated(Zero(FALSE), mt.digits) EXCEPT !.neg = TRUE]
                   ELSE Accumulated(Zero(FALSE), mt.digits),
                   exponent),
            maybe_int, neg, M)

\* precise_xstrtod on the parts of a text without the blanks around it and
\* without its sign: whole [. frac] [(e|E) x]; marked says that there is an
\* e, point that there is a point. The exponent x is an optional sign and 1
\* to 17 digits (an 18th digit is left unread, and so is the e when no digit
\* follows it: the text is no number then).
Xstrtod(neg, whole, point, frac, marked, x) ==
    IF ~(AllDigits(whole) /\ AllDigits(frac) /\ Len(whole) + Len(frac) >= 1)
    THEN NoNumber
    ELSE IF marked /\ ~(/\ Signed(x).rest # <<>>
                         /\ AllDigits(Signed(x).rest)
                         /\ Len(Signed(x).rest) <= 17)
    THEN NoNumber
    ELSE Scanned(neg, Mantissa(whole, frac),
                 IF marked
                 THEN ExponentSum(Mantissa(whole, frac).exponent,
                                  ExponentInt(0, 0, Signed(x).rest), Signed(x).neg)
                 ELSE Mantissa(whole, frac).exponent,
                 ~point /\ ~marked,
                 IF ~point /\ ~marked THEN DigitsBig(whole) ELSE <<>>)

\* The parts of the mantissa m of a text.
Pointed(neg, m, marked, x) ==
    Xstrtod(neg, Before(m, {"."}), Len(Before(m, {"."})) < Len(m), After(m, {"."}), marked, x)

\* The parts of a text t without its sign.
Marked(neg, t) ==
    Pointed(neg, Before(t, {"e", "E"}), Len(Before(t, {"e", "E"})) < Len(t),
            After(t, {"e", "E"}))

\* to_double: precise_xstrtod reads blanks, a sign, digits with at most one
\* point, an exponent and blanks, and must reach the end of the text.
to_double(s) == Marked(Signed(RStrip(LStrip(s))).neg, Signed(RStrip(LStrip(s))).rest)

\* floatify with the outcome d of to_double: when to_double fails, the text
\* is infinite if it is one of six spellings of infinity, in any case.
Floatified(s, d) ==
    IF d.ok THEN d
    ELSE IF UpperStr(s) \in {<<"I", "N", "F">>, <<"+", "I", "N", "F">>, <<"-", "I", "N", "F">>,
                             <<"I", "N", "F", "I", "N", "I", "T", "Y">>,
                             <<"+", "I", "N", "F", "I", "N", "I", "T", "Y">>,
                             <<"-", "I", "N", "F", "I", "N", "I", "T", "Y">>}
    THEN Converted(TRUE, Inf(s[1] = "-"), FALSE, FALSE, <<>>)
    ELSE NoNumber

\* floatify: the float64 of a text
floatify(s) == Floatified(s, to_double(s))

\* 2^63, one above the largest int64
Int64Limit == ShiftLeft(<<1>>, 63)
\* 2^64, one above the largest uint64
UInt64Limit == ShiftLeft(<<1>>, 64)

\* What a conversion to an integer yields: the error ("none" if there is
\* none), and the number.
Integered(err, neg, M) == [err |-> err, neg |-> neg, M |-> M]

\* str_to_int64 on a text without its leading blanks and its sign.
Int64Of(neg, t) ==
    IF Before(t, NonDigits) = <<>> THEN Integered("no digits", FALSE, <<>>)
    ELSE IF LessBig(IF neg THEN Int64Limit ELSE Minus(Int64Limit, <<1>>),
                    DigitsBig(Before(t, NonDigits)))
    THEN Integered("overflow", FALSE, <<>>)
    ELSE IF LStrip(SubSeq(t, Len(Before(t, NonDigits)) + 1, Len(t))) # <<>>
    THEN Integered("invalid chars", FALSE, <<>>)
    ELSE Integered("none", neg /\ DigitsBig(Before(t, NonDigits)) # <<>>,
                   DigitsBig(Before(t, NonDigits)))

\* str_to_int64: blanks, a sign, digits, blanks
str_to_int64(s) == Int64Of(Signed(LStrip(s)).neg, Signed(LStrip(s)).rest)

\* str_to_uint64 on a text without its leading blanks and its + sign.
UInt64Of(t) ==
    IF Before(t, NonDigits) = <<>> THEN Integered("no digits", FALSE, <<>>)
    ELSE IF ~LessBig(DigitsBig(Before(t, NonDigits)), UInt64Limit)
    THEN Integered("overflow", FALSE, <<>>)
    ELSE IF LStrip(SubSeq(t, Len(Before(t, NonDigits)) + 1, Len(t))) # <<>>
    THEN Integered("invalid chars", FALSE, <<>>)
    ELSE Integered("none", FALSE, DigitsBig(Before(t, NonDigits)))

\* str_to_uint64: a text that begins with - is seen as a signed integer
\* (neg) and not read further.
str_to_uint64(s) ==
    IF LStrip(s) # <<>> /\ Head(LStrip(s)) = "-" THEN Integered("none", TRUE, <<>>)
    ELSE IF LStrip(s) # <<>> /\ Head(LStrip(s)) = "+" THEN UInt64Of(Tail(LStrip(s)))
    ELSE UInt64Of(LStrip(s))

\* to_boolean: the words true and false in any case
to_boolean(s) ==
    [ok |-> UpperStr(s) \in {<<"T", "R", "U", "E">>, <<"F", "A", "L", "S", "E">>},
     val |-> UpperStr(s) = <<"T", "R", "U", "E">>]

\* The cells read_csv takes for missing values (STR_NA_VALUES).
NAWords ==
    {<<>>, <<"#", "N", "/", "A">>, <<"#", "N", "/", "A", " ", "N", "/", "A">>,
     <<"#", "N", "A">>, <<"-", "1", ".", "#", "I", "N", "D">>,
     <<"-", "1", ".", "#", "Q", "N", "A", "N">>,
     <<"-", "N", "a", "N">>, <<"-", "n", "a", "n">>, <<"1", ".", "#", "I", "N", "D">>,
     <<"1", ".", "#", "Q", "N", "A", "N">>, <<"<", "N", "A", ">">>, <<"N", "/", "A">>, <<"N", "A">>,
     <<"N", "U", "L", "L">>, <<"N", "a", "N">>, <<"N", "o", "n", "e">>,
     <<"n", "/", "a">>, <<"n", "a", "n">>, <<"n", "u", "l", "l">>}

----------------------------------------------------------------------------
(* The CSV file *)

txtDIVIDEND == <<"D", "I", "V", "I", "D", "E", "N", "D">>
txtREINVESTMENT == <<"R", "E", "I", "N", "V", "E", "S", "T", "M", "E", "N", "T">>

ActDividendReceived ==
    <<"D", "I", "V", "I", "D", "E", "N", "D", " ", "R", "E", "C", "E", "I", "V", "E", "D">>
ActDividendMixed ==
    <<"D", "i", "v", "i", "d", "e", "n", "d", " ", "R", "e", "c", "e", "i", "v", "e", "d">>
ActReinvestment == txtREINVESTMENT

SymABC == <<"A", "B", "C">>
Symabc == <<"a", "b", "c">>
SymABCD == <<"A", "B", "C", "D">>
\* An empty cell.
Absent == <<>>

Row(a, s, m) == [Action |-> a, Symbol |-> s, Amount |-> m]

\* The data lines a file of the model is made of (cells as written in the
\* file, before any conversion).
RowKinds ==
    { Row(ActDividendReceived, SymABC, <<"5", ".", "0", "0">>),
      Row(ActDividendMixed, Symabc, <<"0", ".", "0", "0", "5">>),
      Row(ActDividendReceived, SymABC, <<"-", "1", ".", "0", "0">>),
      Row(ActDividendReceived, Absent, <<".", "5">>),
      Row(ActDividendReceived, SymABCD, <<"n", "/", "a">>),
      Row(ActDividendReceived, <<"1", "0">>, <<"0">>),
      Row(ActDividendMixed, <<"9">>, <<"7">>),
      Row(ActReinvestment, SymABC, <<"-", "1", "0", ".", "0", "0", "5">>),
      Row(<<"R", "e", "i", "n", "v", "e", "s", "t", "m", "e", "n", "t">>,
          SymABC, <<"1", "e", "4", "0", "0">>),
      Row(ActReinvestment, SymABCD, <<"1", "e", "2">>),
      Row(ActReinvestment, SymABCD, <<"0", ".", "0", "0">>),
      Row(ActReinvestment, SymABC, <<"n", "/", "a">>),
      Row(ActDividendMixed, SymABC, <<" ", "i", "n", "f">>),
      Row(Absent, SymABC, <<"2", ".", "5", "0">>) }

ColAction == "Action"
ColSymbol == "Symbol"
ColAmount == "Amount ($)"
ColRunDate == "Run Date"
Columns == {ColRunDate, ColAction, ColSymbol, ColAmount}

RowSeqs(n) == UNION {[1..k -> RowKinds] : k \in 0..n}

File(kind, header, rows) == [kind |-> kind, header |-> header, rows |-> rows]

\* What is at file_path and is no delimited text: nothing, a file of zero
\* bytes, a file the parser rejects (a data line with more fields than the
\* header), a file that is not UTF-8, a directory.
NotCsv == {"absent", "empty", "malformed", "undecodable", "directory"}

\* What is at file_path: one of the above, or a delimited file with a header
\* (as it is after df.columns.str.strip()) and data lines; the header has
\* all the columns or lacks one of the three the program filters on.
Files(n, m) ==
    {File(k, {}, <<>>) : k \in NotCsv}
    \cup {File("csv", Columns, r) : r \in RowSeqs(n)}
    \cup {File("csv", Columns \ {c}, r) :
            c \in {ColAction, ColSymbol, ColAmount}, r \in RowSeqs(m)}

----------------------------------------------------------------------------
(* pd.read_csv: the dtype and the values of each column *)

Column(dtype, vals) == [dtype |-> dtype, vals |-> vals]
\* A column the frame does not have.
NoColumn == Column("none", <<>>)

\* What the converters make of one cell.
Token(c) ==
    [na |-> c \in NAWords, int |-> str_to_int64(c), float |-> floatify(c),
     bool |-> to_boolean(c), text |-> c]

\* The cells of the rows of the model, and what the converters make of them.
Cells == UNION {{r.Action, r.Symbol, r.Amount} : r \in RowKinds}
Tokens == [c \in Cells |-> Token(c)]

\* What the converters make of a cell, looked up for a cell of the model.
Tokenized(c) == IF c \in Cells THEN Tokens[c] ELSE Token(c)

\* The error of the first cell of the column that an integer converter
\* rejects; a missing value is no error.
FirstError(t, ints) ==
    IF \E i \in 1..Len(t) : ~t[i].na /\ ints[i].err # "none"
    THEN ints[CHOOSE i \in 1..Len(t) :
                 /\ ~t[i].na /\ ints[i].err # "none"
                 /\ \A j \in 1..(i - 1) : t[j].na \/ ints[j].err = "none"].err
    ELSE "none"

HasNA(t) == \E i \in 1..Len(t) : t[i].na

\* A column of object dtype: the cells as str, and NaN for a missing value
\* when the filter of missing values is on (na_filter); without it a cell
\* such as the empty one stays the text it is.
Objects(t, na_filter) ==
    Column("object", [i \in 1..Len(t) |->
                         IF na_filter /\ t[i].na THEN NaN ELSE Str(t[i].text)])

\* _try_int64 succeeded. With missing values the column is cast to float64
\* (_maybe_upcast), NaN where the array holds the sentinel of a missing
\* value, which is the smallest int64.
Int64Column(t) ==
    IF HasNA(t)
    THEN Column("float64",
                [i \in 1..Len(t) |->
                    IF t[i].na \/ (t[i].int.neg /\ t[i].int.M = Int64Limit) THEN NaN
                    ELSE Float(t[i].int.neg, t[i].int.M, FALSE, 0)])
    ELSE Column("int64", [i \in 1..Len(t) |-> IntVal(t[i].int.neg, t[i].int.M)])

\* _try_bool_flex
BoolColumn(t) ==
    IF \A i \in 1..Len(t) : t[i].na \/ t[i].bool.ok
    THEN (IF HasNA(t)
          THEN Column("object", [i \in 1..Len(t) |->
                                    IF t[i].na THEN NaN ELSE Bool(t[i].bool.val)])
          ELSE Column("bool", [i \in 1..Len(t) |-> Bool(t[i].bool.val)]))
    ELSE Objects(t, TRUE)

\* _try_double, then the later dtypes of the cast order
FloatColumn(t) ==
    IF \A i \in 1..Len(t) : t[i].na \/ t[i].float.ok
    THEN Column("float64", [i \in 1..Len(t) |->
                               IF t[i].na THEN NaN ELSE t[i].float.number])
    ELSE BoolColumn(t)

\* _try_uint64, after an overflow of int64, with what str_to_uint64 makes of
\* the cells. An overflow again leaves the column as object (OverflowError).
\* A column that has both an integer above the largest int64 and a negative
\* one or a missing value (ValueError) is converted to object with the
\* filter of missing values off: every cell stays its text. A negative
\* integer without one above the largest int64 leaves the column as object
\* (OverflowError).
UInt64Column(t, uints) ==
    IF FirstError(t, uints) = "overflow" THEN Objects(t, TRUE)
    ELSE IF FirstError(t, uints) # "none" THEN FloatColumn(t)
    ELSE IF /\ \E i \in 1..Len(t) : ~t[i].na /\ ~LessBig(uints[i].M, Int64Limit)
            /\ \/ HasNA(t)
               \/ \E i \in 1..Len(t) : ~t[i].na /\ uints[i].neg
    THEN Objects(t, FALSE)
    ELSE IF \E i \in 1..Len(t) : ~t[i].na /\ uints[i].neg THEN Objects(t, TRUE)
    ELSE Column("uint64", [i \in 1..Len(t) |-> IntVal(FALSE, uints[i].M)])

\* The cast order of the parser: int64 (uint64 when it overflows), float64,
\* bool, object.
Inferred(t, ints) ==
    IF FirstError(t, ints) = "none" THEN Int64Column(t)
    ELSE IF FirstError(t, ints) = "overflow"
    THEN UInt64Column(t, [i \in 1..Len(t) |-> str_to_uint64(t[i].text)])
    ELSE FloatColumn(t)

\* TextReader._convert_tokens: a column without rows is object; a column of
\* missing values alone is float64.
Typed(t) ==
    IF t = <<>> THEN Column("object", <<>>)
    ELSE Inferred(t, [i \in 1..Len(t) |-> t[i].int])

\* The column of the cells.
Infer(cells) == Typed([i \in 1..Len(cells) |-> Tokenized(cells[i])])

Frame(columns, index, action, symbol, amount) ==
    [columns |-> columns, index |-> index,
     Action |-> action, Symbol |-> symbol, Amount |-> amount]
NoFrame == Frame({}, <<>>, NoColumn, NoColumn, NoColumn)

Loaded(exc, frame) == [exc |-> exc, frame |-> frame]

\* pd.read_csv, with df.columns.str.strip(): the exception raised ("none" if
\* it returns) and the frame. The index labels of the rows are their
\* numbers in the file, from 0 (a RangeIndex).
read_csv(f) ==
    CASE f.kind = "absent" -> Loaded("FileNotFoundError", NoFrame)
      [] f.kind = "empty" -> Loaded("EmptyDataError", NoFrame)
      [] f.kind = "malformed" -> Loaded("ParserError", NoFrame)
      [] f.kind = "undecodable" -> Loaded("UnicodeDecodeError", NoFrame)
      [] f.kind = "directory" -> Loaded("IsADirectoryError", NoFrame)
      [] OTHER ->
            Loaded("none",
                   Frame(f.header, [i \in 1..Len(f.rows) |-> i - 1],
                         IF ColAction \in f.header
                         THEN Infer([i \in 1..Len(f.rows) |-> f.rows[i].Action])
                         ELSE NoColumn,
                         IF ColSymbol \in f.header
                         THEN Infer([i \in 1..Len(f.rows) |-> f.rows[i].Symbol])
                         ELSE NoColumn,
                         IF ColAmount \in f.header
                         THEN Infer([i \in 1..Len(f.rows) |-> f.rows[i].Amount])
                         ELSE NoColumn))

----------------------------------------------------------------------------
(* pd.to_numeric(column, errors="coerce") *)

\* What maybe_convert_numeric sees in a value of an object column: a
\* missing value (null), a float, an integer above the largest int64 (uint),
\* a negative integer (sint), and the value as a float64 and as an integer.
Seen(null, float, uint, sint, number, int) ==
    [null |-> null, float |-> float, uint |-> uint, sint |-> sint,
     number |-> number, int |-> int]

\* A text floatify made the number d of.
SeenNumber(d) ==
    IF ~d.ok THEN Seen(TRUE, TRUE, FALSE, FALSE, NaN, NaN)
    ELSE IF ~d.maybe_int THEN Seen(FALSE, TRUE, FALSE, FALSE, d.number, NaN)
    ELSE IF d.neg /\ d.M # <<>>
    THEN (IF LessBig(Int64Limit, d.M)
          THEN Seen(FALSE, TRUE, FALSE, FALSE, d.number, NaN)
          ELSE Seen(FALSE, FALSE, FALSE, TRUE, d.number, IntVal(TRUE, d.M)))
    ELSE IF ~LessBig(d.M, UInt64Limit)
    THEN Seen(FALSE, TRUE, FALSE, FALSE, d.number, NaN)
    ELSE Seen(FALSE, FALSE, ~LessBig(d.M, Int64Limit), FALSE, d.number, IntVal(FALSE, d.M))

SeenValue(v) ==
    CASE v.cls = "nan" -> Seen(TRUE, TRUE, FALSE, FALSE, NaN, NaN)
      [] v.cls = "bool" ->
            Seen(FALSE, FALSE, FALSE, FALSE, Float(FALSE, v.M, FALSE, 0), IntVal(FALSE, v.M))
      [] OTHER -> SeenNumber(Tokenized(v.s).float)

\* The array maybe_convert_numeric returns: the column as it is when it has
\* both an integer above the largest int64 and a negative integer or a
\* missing value; float64 when a float was seen; else integers, or bools.
Numeric(col, seen) ==
    IF /\ \E i \in 1..Len(seen) : seen[i].uint
       /\ \E i \in 1..Len(seen) : seen[i].null \/ seen[i].sint
    THEN col
    ELSE IF \E i \in 1..Len(seen) : seen[i].float
    THEN Column("float64", [i \in 1..Len(seen) |-> seen[i].number])
    ELSE IF \A i \in 1..Len(seen) : col.vals[i].cls = "bool"
    THEN Column(IF seen = <<>> THEN "int64" ELSE "bool", col.vals)
    ELSE Column(IF \E i \in 1..Len(seen) : seen[i].uint THEN "uint64" ELSE "int64",
                [i \in 1..Len(seen) |-> seen[i].int])

\* pd.to_numeric: a numeric or bool column is returned as it is.
to_numeric(col) ==
    IF col.dtype # "object" THEN col
    ELSE Numeric(col, [i \in 1..Len(col.vals) |-> SeenValue(col.vals[i])])

----------------------------------------------------------------------------
(* class Dividend *)

DIVIDEND == "dividend"
INVESTMENT == "investment"

\* The value of symbol when no filter is given (None, or the empty string:
\* both are falsy in "if self.symbol").
NoSymbol == <<>>

\* Series.str: pandas has the accessor for a column of object dtype alone,
\* and not when it holds bools.
HasStr(col) ==
    col.dtype = "object" /\ \A i \in 1..Len(col.vals) : col.vals[i].cls # "bool"

\* column.str.contains(pat, case=False, na=False)
str_contains(col, pat) ==
    [i \in 1..Len(col.vals) |->
        col.vals[i].cls = "str" /\ Contains(col.vals[i].s, pat)]

\* The mask of the dividends with > 0 in the place of >= 0.
DividendMaskPositive(df) ==
    [i \in 1..Len(df.index) |->
        /\ str_contains(df.Action, txtDIVIDEND)[i]
        /\ GeZero(df.Amount.vals[i])
        /\ (df.Amount.vals[i].cls = "inf" \/ df.Amount.vals[i].M # <<>>)]

\* The mask of _load_and_filter_dividends.
DividendMask(df) ==
    [i \in 1..Len(df.index) |->
        str_contains(df.Action, txtDIVIDEND)[i] /\ GeZero(df.Amount.vals[i])]

\* The mask of the investments with the amount test of the dividends added.
InvestmentMaskNonNegative(df) ==
    [i \in 1..Len(df.index) |->
        str_contains(df.Action, txtREINVESTMENT)[i] /\ GeZero(df.Amount.vals[i])]

\* The mask of _load_and_filter_investments.
InvestmentMask(df) == str_contains(df.Action, txtREINVESTMENT)

\* df["Symbol"] == self.symbol.upper(): a value that is no str equals none.
SymbolMask(col, symbol) ==
    [i \in 1..Len(col.vals) |->
        col.vals[i].cls = "str" /\ col.vals[i].s = UpperStr(symbol)]

\* column[mask]
Picked(col, keep) == Column(col.dtype, [j \in 1..Len(keep) |-> col.vals[keep[j]]])

\* df[mask]: the rows whose mask is True, in the order of the frame.
Select(df, keep) ==
    Frame(df.columns, [j \in 1..Len(keep) |-> df.index[keep[j]]],
          IF ColAction \in df.columns THEN Picked(df.Action, keep) ELSE NoColumn,
          IF ColSymbol \in df.columns THEN Picked(df.Symbol, keep) ELSE NoColumn,
          Picked(df.Amount, keep))

\* The end of both filters: the symbol filter, if one is given, and df[mask].
WithSymbol(df, mask, symbol) ==
    IF symbol = NoSymbol
    THEN Loaded("none", Select(df, Ascending({i \in 1..Len(mask) : mask[i]})))
    ELSE IF ColSymbol \notin df.columns THEN Loaded("KeyError", NoFrame)
    ELSE Loaded("none",
                Select(df, Ascending({i \in 1..Len(mask) :
                                         mask[i] /\ SymbolMask(df.Symbol, symbol)[i]})))

\* df["Amount ($)"] = pd.to_numeric(df["Amount ($)"], errors="coerce")
WithAmount(df, amount) == [df EXCEPT !.Amount = amount]

\* The mask of the dividends on the frame with its numeric amounts: .str
\* raises AttributeError on an Action column that is no text, and >= raises
\* TypeError on an Amount column that to_numeric left as object.
Dividends(df, symbol) ==
    IF ColAction \notin df.columns THEN Loaded("KeyError", NoFrame)
    ELSE IF ~HasStr(df.Action) THEN Loaded("AttributeError", NoFrame)
    ELSE IF df.Amount.dtype = "object" THEN Loaded("TypeError", NoFrame)
    ELSE WithSymbol(df, DividendMask(df), symbol)

\* The mask of the investments on the frame with its numeric amounts.
Investments(df, symbol) ==
    IF ColAction \notin df.columns THEN Loaded("KeyError", NoFrame)
    ELSE IF ~HasStr(df.Action) THEN Loaded("AttributeError", NoFrame)
    ELSE WithSymbol(df, InvestmentMask(df), symbol)

\* The filter on what read_csv returned.
DividendsOf(rd, symbol) ==
    IF rd.exc # "none" THEN rd
    ELSE IF ColAmount \notin rd.frame.columns THEN Loaded("KeyError", NoFrame)
    ELSE Dividends(WithAmount(rd.frame, to_numeric(rd.frame.Amount)), symbol)

InvestmentsOf(rd, symbol) ==
    IF rd.exc # "none" THEN rd
    ELSE IF ColAmount \notin rd.frame.columns THEN Loaded("KeyError", NoFrame)
    ELSE Investments(WithAmount(rd.frame, to_numeric(rd.frame.Amount)), symbol)

_load_and_filter_dividends(f, symbol) == DividendsOf(read_csv(f), symbol)

_load_and_filter_investments(f, symbol) == InvestmentsOf(read_csv(f), symbol)

\* What __enter__ makes of the outcome of the filter: the errors of the
\* parser become RuntimeError.
Caught(df) ==
    IF df.exc \in {"EmptyDataError", "ParserError"}
    THEN Loaded("RuntimeError", NoFrame)
    ELSE df

\* Dividend.__enter__: the exception raised ("none" if it returns) and the
\* frame returned.
Enter(f, action, symbol) ==
    IF f.kind = "absent"
    THEN Loaded("FileNotFoundError", NoFrame)
    ELSE Caught(IF action = DIVIDEND
                THEN _load_and_filter_dividends(f, symbol)
                ELSE _load_and_filter_investments(f, symbol))

\* Dividend.__exit__: TRUE when it returns a true value (which suppresses
\* the exception, if there is one).
Exit(exc_type) == IF exc_type = "none" THEN TRUE ELSE FALSE

----------------------------------------------------------------------------
(* Report views *)

\* One print() of the program. k is what is printed; sym, amt and rows are
\* its symbol (a value of the Symbol column), its total as it is printed and
\* the index labels of the rows it lists; syms is the list of symbols it
\* prints.
Line(k, sym, amt, rows) ==
    [k |-> k, sym |-> sym, amt |-> amt, rows |-> rows, syms |-> <<>>]
\* The sym of a line that prints no symbol, the amt of one without total.
NoKey == Str(<<>>)
NoTotal == <<>>
Text(k) == Line(k, NoKey, NoTotal, <<>>)

Viewed(out, exc) == [out |-> out, exc |-> exc]

\* a, and then b if a raised nothing
Then(a, b) == IF a.exc # "none" THEN a ELSE Viewed(a.out \o b.out, b.exc)

RECURSIVE FoldAdd(_, _)
\* acc + v[1] + v[2] + ..., added from left to right
FoldAdd(acc, v) == IF v = <<>> THEN acc ELSE FoldAdd(Add(acc, Head(v)), Tail(v))

RECURSIVE TreeAdd(_)
\* The sum of the values of r, added by halves.
TreeAdd(r) ==
    IF Len(r) = 1 THEN r[1]
    ELSE Add(TreeAdd(SubSeq(r, 1, Len(r) \div 2)),
             TreeAdd(SubSeq(r, (Len(r) \div 2) + 1, Len(r))))

\* The values of the eight partial sums of numpy's unrolled loop and of
\* what is left after them: partial sum j adds v[j], v[j + 8], v[j + 16],
\* ... up to position full, and the partial sums are added by halves.
Unrolled(v, full) ==
    <<TreeAdd([j \in 1..8 |->
                 FoldAdd(v[j], [t \in 1..((full - j) \div 8) |-> v[j + 8 * t]])])>>
    \o SubSeq(v, full + 1, Len(v))

RECURSIVE PairwiseSum(_)
\* numpy's sum of a float64 array: from left to right for fewer than 8
\* values, eight partial sums up to 128 values, halves above.
PairwiseSum(v) ==
    IF Len(v) > 128
    THEN TreeAdd(<<PairwiseSum(SubSeq(v, 1, (Len(v) \div 2) - ((Len(v) \div 2) % 8))),
                   PairwiseSum(SubSeq(v, (Len(v) \div 2) - ((Len(v) \div 2) % 8) + 1, Len(v)))>>)
    ELSE FoldAdd(Zero(TRUE), IF Len(v) < 8 THEN v ELSE Unrolled(v, Len(v) - (Len(v) % 8)))

RECURSIVE FoldBig(_, _)
\* acc + v[1] + v[2] + ... for natural numbers
FoldBig(acc, v) == IF v = <<>> THEN acc ELSE FoldBig(AddBig(acc, Head(v)), Tail(v))

\* p - n in the 64 bits of an integer dtype, which wraps around: the bits of
\* the difference, read as uint64 or as int64.
Wrapped(p, n, unsigned) ==
    LET bits == IF ~LessBig(p, n) THEN LowBits(Minus(p, n), 64)
                ELSE IF LowBits(Minus(n, p), 64) = <<>> THEN <<>>
                ELSE Minus(UInt64Limit, LowBits(Minus(n, p), 64))
    IN IF unsigned \/ LessBig(bits, Int64Limit) THEN IntVal(FALSE, bits)
       ELSE IntVal(TRUE, Minus(UInt64Limit, bits))

\* The sum of an array of integers or bools.
IntSum(v, unsigned) ==
    Wrapped(FoldBig(<<>>, [i \in 1..Len(v) |-> IF v[i].neg THEN <<>> ELSE v[i].M]),
            FoldBig(<<>>, [i \in 1..Len(v) |-> IF v[i].neg THEN v[i].M ELSE <<>>]),
            unsigned)

\* What a sum yields: the exception raised ("none" if there is none) and the
\* total.
Summed(exc, total) == [exc |-> exc, total |-> total]

\* The sum of an object array, with 0 in the place of NaN: Python adds its
\* values, and cannot add a str and 0.
ObjectSum(v) ==
    IF \A i \in 1..Len(v) : v[i].cls = "nan" THEN Summed("none", IntVal(FALSE, <<>>))
    ELSE IF \E i \in 1..Len(v) : v[i].cls = "nan" THEN Summed("TypeError", NaN)
    ELSE Summed("none", Str(<<>>))

\* Series.sum() of the values v of a column: NaN counts as 0.0 (skipna), the
\* sum of nothing is 0.
SumValues(dtype, v) ==
    CASE dtype = "float64" ->
            Summed("none", IF v = <<>> THEN Zero(FALSE)
                           ELSE PairwiseSum([i \in 1..Len(v) |->
                                                IF v[i].cls = "nan" THEN Zero(FALSE)
                                                ELSE v[i]]))
      [] dtype = "object" -> ObjectSum(v)
      [] OTHER -> Summed("none", IntSum(v, dtype = "uint64"))

\* Series.sum() of the rows pos of a column
SumAmounts(col, pos) == SumValues(col.dtype, [i \in 1..Len(pos) |-> col.vals[pos[i]]])

\* GroupTotal with skipna=False: one NaN makes the total NaN.
GroupTotalNaN(col, pos) ==
    IF \E i \in 1..Len(pos) : col.vals[pos[i]].cls = "nan"
    THEN Summed("none", NaN)
    ELSE SumAmounts(col, pos)

\* group["Amount ($)"].sum()
GroupTotal(col, pos) == SumAmounts(col, pos)

\* f"{total_amount:.2f}": an integer is formatted as the float of it, a str
\* has no format f.
Formatted(t) ==
    CASE t.exc # "none" -> Summed(t.exc, NoTotal)
      [] t.exc = "none" /\ t.total.cls = "str" -> Summed("ValueError", NoTotal)
      [] t.exc = "none" /\ t.total.cls = "int" ->
            Summed("none", Format2f(Float(t.total.neg, t.total.M, FALSE, 0)))
      [] OTHER -> Summed("none", Format2f(t.total))

\* print(f"Total Amount for {sym}: ${total_amount:.2f}") with the text of
\* the total
Totalled(key, t) ==
    IF t.exc # "none" THEN Viewed(<<>>, t.exc)
    ELSE Viewed(<<Line("Total Amount for", key, t.total, <<>>)>>, "none")

\* The total line of the group of the rows pos.
TotalLine(col, key, pos) == Totalled(key, Formatted(GroupTotal(col, pos)))

\* The values are one key of groupby and of unique(): equal values, 0.0 and
\* -0.0 being equal.
SameKey(a, b) ==
    \/ a = b
    \/ a.cls \in {"num", "int"} /\ a.cls = b.cls /\ a.M = <<>> /\ b.M = <<>>

\* |a| < |b| for numbers (float64, integers, bools), b finite or not
MagLess(a, b) ==
    IF a.cls = "inf" THEN FALSE
    ELSE IF b.cls = "inf" THEN TRUE
    ELSE LessBig(ShiftLeft(a.M, IF a.q > b.q THEN a.q - b.q ELSE 0),
                 ShiftLeft(b.M, IF b.q > a.q THEN b.q - a.q ELSE 0))

\* -1, 0 or 1 as the number is below, at or above 0
Sign(a) == IF a.cls # "inf" /\ a.M = <<>> THEN 0 ELSE IF a.neg THEN 0 - 1 ELSE 1

\* key a < key b: str by code point, numbers by value
KeyLess(a, b) ==
    IF a.cls = "str" THEN StrLess(a.s, b.s)
    ELSE \/ Sign(a) < Sign(b)
         \/ Sign(a) = Sign(b) /\ Sign(a) = 1 /\ MagLess(a, b)
         \/ Sign(a) = Sign(b) /\ Sign(a) = 0 - 1 /\ MagLess(b, a)

RECURSIVE SortKeys(_)
\* The keys (no two the same) in ascending order.
SortKeys(keys) ==
    IF keys = <<>> THEN <<>>
    ELSE LET m == CHOOSE i \in 1..Len(keys) :
                     \A j \in 1..Len(keys) : j = i \/ KeyLess(keys[i], keys[j])
         IN <<keys[m]>> \o SortKeys([j \in 1..(Len(keys) - 1) |->
                                        IF j < m THEN keys[j] ELSE keys[j + 1]])

RECURSIVE Unique(_)
\* Series.unique(): the values in the order of first occurrence, NaN kept.
Unique(vals) ==
    IF vals = <<>> THEN <<>>
    ELSE LET rest == Unique(SubSeq(vals, 1, Len(vals) - 1))
         IN IF \E i \in 1..Len(rest) : SameKey(rest[i], vals[Len(vals)])
            THEN rest
            ELSE Append(rest, vals[Len(vals)])

RECURSIVE WithoutNaN(_)
\* dropna=True
WithoutNaN(q) ==
    IF q = <<>> THEN <<>>
    ELSE IF Head(q).cls = "nan" THEN WithoutNaN(Tail(q))
    ELSE <<Head(q)>> \o WithoutNaN(Tail(q))

\* GroupKeys with sort=False: the keys in order of first occurrence.
GroupKeysUnsorted(divs) == WithoutNaN(Unique(divs.Symbol.vals))

\* The keys of divs.groupby("Symbol"), in the order the groups are
\* iterated: sort=True sorts them, dropna=True leaves NaN out.
GroupKeys(divs) == SortKeys(WithoutNaN(Unique(divs.Symbol.vals)))

\* The rows of one group (their places in the frame), in the order of the
\* frame.
Group(divs, key) ==
    Ascending({j \in 1..Len(divs.index) : SameKey(divs.Symbol.vals[j], key)})

\* The columns print(divs[["Run Date", "Symbol", "Amount ($)"]]) selects.
HasListed(divs) == {ColRunDate, ColSymbol, ColAmount} \subseteq divs.columns

RECURSIVE SumGroups(_, _)
\* The loop of sum(divs) over the groups.
SumGroups(divs, keys) ==
    IF keys = <<>> THEN Viewed(<<>>, "none")
    ELSE Then(TotalLine(divs.Amount, Head(keys), Group(divs, Head(keys))),
              SumGroups(divs, Tail(keys)))

\* sum(divs), defined in dividend_csv_process
ViewSum(divs) ==
    IF divs.index = <<>>
    THEN Viewed(<<Text("No dividends found.")>>, "none")
    ELSE IF ColSymbol \notin divs.columns
    THEN Viewed(<<>>, "KeyError")
    ELSE SumGroups(divs, GroupKeys(divs))

\* symbols_details(divs)
ViewSymbols(divs) ==
    IF ColSymbol \notin divs.columns
    THEN Viewed(<<Text("Available Symbols:")>>, "KeyError")
    ELSE Viewed(<<Text("Available Symbols:")>>
                \o [i \in 1..Len(Unique(divs.Symbol.vals)) |->
                       Line("symbol", Unique(divs.Symbol.vals)[i], NoTotal, <<>>)],
                "none")

\* One pass of the loop of details(divs): the header of the group, its
\* listing (the index labels of its rows pos) and its total line.
DetailGroup(divs, key, pos) ==
    IF ~HasListed(divs) THEN Viewed(<<Line("Symbol:", key, NoTotal, <<>>)>>, "KeyError")
    ELSE Then(Viewed(<<Line("Symbol:", key, NoTotal, <<>>),
                       Line("listing", key, NoTotal,
                            [j \in 1..Len(pos) |-> divs.index[pos[j]]])>>, "none"),
              TotalLine(divs.Amount, key, pos))

RECURSIVE DetailLines(_, _)
DetailLines(divs, keys) ==
    IF keys = <<>> THEN Viewed(<<>>, "none")
    ELSE Then(DetailGroup(divs, Head(keys), Group(divs, Head(keys))),
              DetailLines(divs, Tail(keys)))

\* details(divs)
ViewDetails(divs) ==
    IF ColSymbol \notin divs.columns
    THEN Viewed(<<>>, "KeyError")
    ELSE DetailLines(divs, GroupKeys(divs))

\* The module-level lambdas for "sum" and "print":
\* print(divs[["Run Date", "Symbol", "Amount ($)"]])
ViewTable(divs) ==
    IF HasListed(divs) THEN Viewed(<<Line("table", NoKey, NoTotal, divs.index)>>, "none")
    ELSE Viewed(<<>>, "KeyError")

\* The lambda for "all": the same columns, through to_string()
ViewAll(divs) ==
    IF HasListed(divs) THEN Viewed(<<Line("to_string", NoKey, NoTotal, divs.index)>>, "none")
    ELSE Viewed(<<>>, "KeyError")

\* The module-level lambda for "symbols": print(divs["Symbol"].unique().tolist())
ViewSymbolList(divs) ==
    IF ColSymbol \notin divs.columns
    THEN Viewed(<<>>, "KeyError")
    ELSE Viewed(<<[Text("list") EXCEPT !.syms = Unique(divs.Symbol.vals)]>>, "none")

\* The module-level lambda for "details": print(divs)
ViewFrame(divs) == Viewed(<<Line("frame", NoKey, NoTotal, divs.index)>>, "none")

REPORTS == {"sum", "symbols", "details", "print", "all"}

\* report_map as the module defines it: every report a lambda.
InitialReportMap ==
    [r \in REPORTS |->
        CASE r = "sum" -> "lambda sum"
          [] r = "symbols" -> "lambda symbols"
          [] r = "details" -> "lambda details"
          [] r = "print" -> "lambda print"
          [] r = "all" -> "lambda all"]

\* Overridden with one more assignment, made before the others:
\* report_map["all"] = report_map["details"].
OverriddenAlias(m) ==
    [m EXCEPT !["all"] = m["details"], !["sum"] = "sum", !["details"] = "details",
              !["symbols"] = "symbols_details"]

\* The three assignments dividend_csv_process makes to report_map.
Overridden(m) ==
    [m EXCEPT !["sum"] = "sum", !["details"] = "details",
              !["symbols"] = "symbols_details"]

\* The call of a view of report_map.
RunView(view, divs) ==
    CASE view = "sum" -> ViewSum(divs)
      [] view = "symbols_details" -> ViewSymbols(divs)
      [] view = "details" -> ViewDetails(divs)
      [] view \in {"lambda sum", "lambda print"} -> ViewTable(divs)
      [] view = "lambda all" -> ViewAll(divs)
      [] view = "lambda symbols" -> ViewSymbolList(divs)
      [] view = "lambda details" -> ViewFrame(divs)

----------------------------------------------------------------------------
(* dividend_csv_process *)

VARIABLES
    file,        \* what is at file_path; it does not change
    report_map,  \* the module-level report_map: report name -> view
    pc,          \* "idle", "entered" (inside the with block) or "done"
    args,        \* the arguments of the invocation in progress
    divs,        \* the frame __enter__ returned
    stdout,      \* the lines the invocation has printed
    raised,      \* the exception that left dividend_csv_process, or "none"
    viewRun,     \* the view the invocation called, or "none"
    history      \* the finished invocations of the process, oldest first

vars == <<file, report_map, pc, args, divs, stdout, raised, viewRun, history>>

Banner == Text("Processing file:")

Start(f) ==
    /\ file = f
    /\ report_map = InitialReportMap
    /\ pc = "idle"
    /\ args = [report |-> "sum", action |-> DIVIDEND, symbol |-> NoSymbol]
    /\ divs = NoFrame
    /\ stdout = <<>>
    /\ raised = "none"
    /\ viewRun = "none"
    /\ history = <<>>

Init == \E f \in Files(MaxRows, MaxRowsLacking) : Start(f)

\* dividend_csv_process up to the body of the with statement: the banner,
\* the overrides of report_map, and Dividend(...).__enter__().
\* e is what Dividend(file_path, action, symbol).__enter__() does.
Call(report, action, symbol, e) ==
    /\ pc = "idle"
    /\ Len(history) < MaxCalls
    /\ args' = [report |-> report, action |-> action, symbol |-> symbol]
    /\ report_map' = Overridden(report_map)
    /\ stdout' = <<Banner>>
    /\ viewRun' = "none"
    /\ raised' = e.exc
    /\ divs' = e.frame
    /\ pc' = IF e.exc = "none" THEN "entered" ELSE "done"
    /\ UNCHANGED <<file, history>>

\* Calls with any of the reports.
CallAny(reports, action, symbol, e) ==
    \E r \in reports : Call(r, action, symbol, e)

\* What a view printed is on stdout, and the exception it raised, which
\* __exit__ does not suppress, leaves dividend_csv_process.
Viewing(v) ==
    /\ stdout' = stdout \o v.out
    /\ raised' = IF v.exc # "none" /\ ~Exit(v.exc) THEN v.exc ELSE "none"

\* The body of the with statement and __exit__. The frame is never None,
\* so the "No data available." branch is not taken.
Body ==
    /\ pc = "entered"
    /\ IF args.report \in DOMAIN report_map
       THEN /\ viewRun' = report_map[args.report]
            /\ Viewing(RunView(report_map[args.report], divs))
       ELSE /\ viewRun' = "none"
            /\ stdout' = Append(stdout, Text("Unknown report:"))
            /\ raised' = "none"
    /\ pc' = "done"
    /\ UNCHANGED <<file, report_map, args, divs, history>>

\* The caller gets control back (with the result or the exception) and may
\* call again: report_map keeps what the invocation wrote into it.
Return ==
    /\ pc = "done"
    /\ history' = Append(history, [args |-> args, view |-> viewRun,
                                   stdout |-> stdout, raised |-> raised])
    /\ pc' = "idle"
    /\ UNCHANGED <<file, report_map, args, divs, stdout, raised, viewRun>>

\* main() with a file_path where something is: one invocation with the
\* arguments click accepts, then the process ends. The symbol filters are
\* none, and a ticker in upper and in lower case.
Main == \E a \in {DIVIDEND, INVESTMENT}, s \in {NoSymbol, SymABC, Symabc} :
            /\ history = <<>>
            /\ file.kind # "absent"
            /\ CallAny(REPORTS, a, s, Enter(file, a, s))

\* main() with a file_path where nothing is: click.Path(exists=True) rejects
\* the argument, click reports the usage error on stderr and ends the
\* process with status 2; dividend_csv_process is not called.
UsageError ==
    /\ pc = "idle"
    /\ history = <<>>
    /\ file.kind = "absent"
    /\ raised' = "SystemExit(2)"
    /\ pc' = "done"
    /\ UNCHANGED <<file, report_map, args, divs, stdout, viewRun, history>>

Next == Main \/ UsageError \/ Body

Spec == Init /\ [][Next]_vars

\* Library use: dividend_csv_process called several times in one process,
\* with any report name.
LibCall == \E a \in {DIVIDEND, INVESTMENT} :
               CallAny(REPORTS \cup {"bogus"}, a, NoSymbol, Enter(file, a, NoSymbol))

\* The files of the library runs: what is no delimited text, and the files
\* of the rows of two dividends and a reinvestment.
LibFiles ==
    {File(k, {}, <<>>) : k \in NotCsv}
    \cup {File("csv", Columns, r) :
            r \in {<<>>,
                   <<Row(ActDividendReceived, SymABC, <<"5", ".", "0", "0">>)>>,
                   <<Row(ActDividendReceived, SymABC, <<"5", ".", "0", "0">>),
                     Row(ActReinvestment, SymABC, <<"-", "1", "0", ".", "0", "0", "5">>)>>,
                   <<Row(ActDividendMixed, Symabc, <<"0", ".", "0", "0", "5">>),
                     Row(ActDividendReceived, SymABC, <<"5", ".", "0", "0">>)>>}}
    \cup {File("csv", Columns \ {ColSymbol}, <<>>)}

InitLib == \E f \in LibFiles : Start(f)

NextLib == LibCall \/ Body \/ Return

SpecLib == InitLib /\ [][NextLib]_vars

----------------------------------------------------------------------------
(* What the rows of the model are, read off the file by eye: the           *)
(* properties below are stated with these, not with the program's parsing.  *)

SaysDividend(r) == r.Action \in {ActDividendReceived, ActDividendMixed}
SaysReinvestment(r) ==
    r.Action \in {ActReinvestment,
                  <<"R", "e", "i", "n", "v", "e", "s", "t", "m", "e", "n", "t">>}

\* The amounts of the model that are no number: a word for a missing value,
\* a number beyond the range of float64, and what to_numeric does not take
\* for a spelling of infinity.
AmountMissing(r) ==
    r.Amount \in {<<"n", "/", "a">>, <<"1", "e", "4", "0", "0">>, <<" ", "i", "n", "f">>}

\* The amount of a row in thousandths of a dollar (0 for a row without a
\* number).
Mills(r) ==
    CASE r.Amount = <<"5", ".", "0", "0">> -> 5000
      [] r.Amount = <<"0", ".", "0", "0", "5">> -> 5
      [] r.Amount = <<"-", "1", ".", "0", "0">> -> 0 - 1000
      [] r.Amount = <<".", "5">> -> 500
      [] r.Amount = <<"0">> -> 0
      [] r.Amount = <<"7">> -> 7000
      [] r.Amount = <<"-", "1", "0", ".", "0", "0", "5">> -> 0 - 10005
      [] r.Amount = <<"1", "e", "2">> -> 100000
      [] r.Amount = <<"0", ".", "0", "0">> -> 0
      [] r.Amount = <<"2", ".", "5", "0">> -> 2500
      [] OTHER -> 0

\* The text is an amount of money as :.2f prints it: a sign, digits, a point
\* and two digits.
IsMoney(t) ==
    LET body == IF t # <<>> /\ t[1] = "-" THEN Tail(t) ELSE t
    IN /\ Len(body) >= 4 /\ Len(body) <= 10
       /\ body[Len(body) - 2] = "."
       /\ \A i \in 1..Len(body) : i = Len(body) - 2 \/ IsDigit(body[i])

\* The cents a printed amount of money reads as.
ReadCents(t) ==
    LET body == IF t[1] = "-" THEN Tail(t) ELSE t
        cents == DigitsVal(SubSeq(body, 1, Len(body) - 3)
                           \o SubSeq(body, Len(body) - 1, Len(body)))
    IN IF t[1] = "-" THEN 0 - cents ELSE cents

\* The printed total amt is the amount of n thousandths of a dollar to two
\* decimals: a number of cents at most half a cent away from it.
PrintsAs(amt, n) == IsMoney(amt) /\ 10 * ReadCents(amt) - n \in (0 - 5)..5

\* The filtered rows whose amounts are whole cents.
WholeCents(S) == \A i \in S : Mills(file.rows[i]) % 10 = 0

AmountNonNegative(r) == ~AmountMissing(r) /\ Mills(r) >= 0

\* Two tickers that differ at most in the case of their letters.
SameTicker(a, b) ==
    /\ Len(a) = Len(b)
    /\ \A i \in 1..Len(a) :
          \/ a[i] = b[i]
          \/ \E j \in 1..Len(Uppers) : {a[i], b[i]} \subseteq {Uppers[j], Lowers[j]}

\* Row i of the file (its index label is i - 1) is in the frame.
InFrame(i) == \E j \in 1..Len(divs.index) : divs.index[j] = i - 1

RowsOfFile == 1..Len(file.rows)

\* The category predicate of the invocation in progress.
PassesCategory(r) ==
    IF args.action = DIVIDEND
    THEN SaysDividend(r) /\ AmountNonNegative(r)
    ELSE SaysReinvestment(r)

\* The frame is the filtered set of the invocation in progress.
Filtered == pc = "entered"

\* The rows of the filtered set.
FrameRows == {i \in RowsOfFile : InFrame(i)}

\* Every Symbol cell of the file that is not empty is a number.
NumericSymbols == \A i \in RowsOfFile : AllDigits(file.rows[i].Symbol)

\* The printed symbol sym is the Symbol cell t: the text itself, or the
\* number the text is when the symbols of the file are numbers.
Shows(sym, t) ==
    /\ t # Absent
    /\ IF sym.cls = "str" THEN sym.s = t
       ELSE /\ AllDigits(t)
            /\ sym.cls \in {"int", "num"} /\ ~sym.neg /\ sym.q >= 0
            /\ ToInt(ShiftLeft(sym.M, sym.q)) = DigitsVal(t)

\* The rows of the filtered set whose Symbol is printed as sym.
FrameRowsOf(sym) == {i \in FrameRows : Shows(sym, file.rows[i].Symbol)}

RECURSIVE SumMills(_)
\* The sum of the amounts of a set of rows, a missing amount counting 0.
SumMills(S) ==
    IF S = {} THEN 0
    ELSE LET i == CHOOSE x \in S : TRUE
         IN Mills(file.rows[i]) + SumMills(S \ {i})

\* What the invocation printed after its banner line.
Report == SubSeq(stdout, 2, Len(stdout))

----------------------------------------------------------------------------
(* Claims on the filters *)

\* C1: with category Dividend and no symbol filter, a row of the file is in
\* the filtered set exactly if its Action contains "dividend" in any case and
\* its amount is a number >= 0.
C1_DividendFilter ==
    (Filtered /\ args.action = DIVIDEND /\ args.symbol = NoSymbol) =>
        \A i \in RowsOfFile :
            InFrame(i) <=> (SaysDividend(file.rows[i]) /\ AmountNonNegative(file.rows[i]))

\* A dividend run that kept a dividend of amount 0 and dropped both a
\* reversal and a row of another action.
C1_Witness ==
    /\ Filtered /\ args.action = DIVIDEND /\ args.symbol = NoSymbol
    /\ \E i, j, k \in RowsOfFile :
          /\ InFrame(i) /\ SaysDividend(file.rows[i])
          /\ ~AmountMissing(file.rows[i]) /\ Mills(file.rows[i]) = 0
          /\ SaysDividend(file.rows[j]) /\ Mills(file.rows[j]) < 0 /\ ~InFrame(j)
          /\ ~SaysDividend(file.rows[k]) /\ ~InFrame(k)

\* C2: with category Investment and no symbol filter, a row of the file is in
\* the filtered set exactly if its Action contains "reinvestment" in any
\* case, whatever the sign of its amount.
C2_InvestmentFilter ==
    (Filtered /\ args.action = INVESTMENT /\ args.symbol = NoSymbol) =>
        \A i \in RowsOfFile : InFrame(i) <=> SaysReinvestment(file.rows[i])

\* An investment run that kept a reinvestment of a negative amount, one of
\* amount 0 and one of a positive amount.
C2_Witness ==
    /\ Filtered /\ args.action = INVESTMENT /\ args.symbol = NoSymbol
    /\ \E i, j, k \in RowsOfFile :
          /\ InFrame(i) /\ Mills(file.rows[i]) < 0
          /\ InFrame(j) /\ ~AmountMissing(file.rows[j]) /\ Mills(file.rows[j]) = 0
          /\ InFrame(k) /\ Mills(file.rows[k]) > 0

\* C3: with a symbol filter, a row that passes the category predicate is
\* kept exactly if its Symbol equals the filter, both compared as whole
\* strings regardless of case.
C3_SymbolFilterCaseInsensitive ==
    (Filtered /\ args.symbol # NoSymbol) =>
        \A i \in RowsOfFile :
            InFrame(i) <=> (/\ PassesCategory(file.rows[i])
                            /\ SameTicker(file.rows[i].Symbol, args.symbol))

\* C10: a row without a numeric amount is never in the Dividend set; in the
\* Investment category it is kept when its Action contains "reinvestment",
\* and each printed total is the sum of the numeric amounts of its group,
\* printed with two decimals.
C10_MissingAmount ==
    /\ (Filtered /\ args.action = DIVIDEND) =>
          \A i \in RowsOfFile : AmountMissing(file.rows[i]) => ~InFrame(i)
    /\ (Filtered /\ args.action = INVESTMENT /\ args.symbol = NoSymbol) =>
          \A i \in RowsOfFile :
              (AmountMissing(file.rows[i]) /\ SaysReinvestment(file.rows[i])) => InFrame(i)
    /\ (pc = "done" /\ args.action = INVESTMENT /\ viewRun \in {"sum", "details"}) =>
          \A n \in 1..Len(stdout) :
              stdout[n].k = "Total Amount for" =>
                  PrintsAs(stdout[n].amt,
                           SumMills({i \in FrameRowsOf(stdout[n].sym) :
                                        ~AmountMissing(file.rows[i])}))

\* An investment total printed over a group that holds a row without a
\* numeric amount and a row with one.
C10_Witness ==
    /\ pc = "done" /\ args.action = INVESTMENT /\ viewRun = "sum" /\ raised = "none"
    /\ \E n \in 1..Len(stdout), i, j \in RowsOfFile :
          /\ stdout[n].k = "Total Amount for"
          /\ i \in FrameRowsOf(stdout[n].sym) /\ j \in FrameRowsOf(stdout[n].sym)
          /\ AmountMissing(file.rows[i]) /\ ~AmountMissing(file.rows[j])
          /\ Mills(file.rows[j]) # 0
          /\ PrintsAs(stdout[n].amt, Mills(file.rows[j]))

----------------------------------------------------------------------------
(* Claims on the report views *)

RECURSIVE SumOfTotals(_)
\* The sum of the totals printed in a sequence of lines, in cents.
SumOfTotals(lines) ==
    IF lines = <<>> THEN 0
    ELSE (IF Head(lines).k # "Total Amount for" THEN 0 ELSE ReadCents(Head(lines).amt))
         + SumOfTotals(Tail(lines))

\* C4: in the Totals view the printed per-symbol totals add up to the sum of
\* the amounts of all the filtered rows, a row without a Symbol included.
\* Stated for filtered rows of whole cents, whose totals print exactly.
C4_TotalsCoverAllRows ==
    (pc = "done" /\ viewRun = "sum" /\ raised = "none" /\ WholeCents(FrameRows)) =>
        10 * SumOfTotals(Report) = SumMills(FrameRows)

NoDataNotices == {Text("No dividends found."), Text("No data available.")}

\* C5: when the filtered set is empty, whatever the view and the category,
\* the invocation prints one no-data notice and nothing else (after its
\* banner line) and ends without an error. Stated for files that have all
\* their columns.
C5_EmptyGivesOneNotice ==
    (pc = "done" /\ viewRun # "none" /\ divs.index = <<>> /\ file.header = Columns) =>
        /\ raised = "none"
        /\ Len(Report) = 1
        /\ Report[1] \in NoDataNotices

\* The groups the Details view printed, in print order: three lines each.
GroupsPrinted == Len(Report) \div 3
GroupHeader(g) == Report[3 * g - 2]
GroupListing(g) == Report[3 * g - 1]
GroupTotalLine(g) == Report[3 * g]

\* Each group is printed as its header, its rows in file order and then its
\* own total with two decimals, and every symbol of the filtered set has a
\* group.
GroupsWellFormed ==
    /\ Len(Report) = 3 * GroupsPrinted
    /\ \A g \in 1..GroupsPrinted :
          /\ GroupHeader(g).k = "Symbol:"
          /\ FrameRowsOf(GroupHeader(g).sym) # {}
          /\ GroupListing(g).k = "listing"
          /\ GroupListing(g).rows
                = [j \in 1..Cardinality(FrameRowsOf(GroupHeader(g).sym)) |->
                      Ascending(FrameRowsOf(GroupHeader(g).sym))[j] - 1]
          /\ GroupTotalLine(g).k = "Total Amount for"
          /\ GroupTotalLine(g).sym = GroupHeader(g).sym
          /\ PrintsAs(GroupTotalLine(g).amt, SumMills(FrameRowsOf(GroupHeader(g).sym)))
    /\ \A i \in FrameRows :
          file.rows[i].Symbol # Absent =>
              \E g \in 1..GroupsPrinted : i \in FrameRowsOf(GroupHeader(g).sym)

\* The first row of the filtered set that is in the group.
FirstRowOf(g) ==
    CHOOSE i \in FrameRowsOf(GroupHeader(g).sym) :
        \A j \in FrameRowsOf(GroupHeader(g).sym) : i <= j

\* The Symbol cell of the rows of the group, as it is in the file.
SymbolOf(g) == file.rows[FirstRowOf(g)].Symbol

\* The symbol a is before the symbol b in the order of their values: numbers
\* by value when every symbol of the file is a number, text by code point.
SymbolBefore(a, b) ==
    IF NumericSymbols THEN DigitsVal(a) < DigitsVal(b) ELSE StrLess(a, b)

DetailsDone == pc = "done" /\ viewRun = "details" /\ raised = "none"

\* C6 as stated: the Details view prints the groups in the order in which
\* their symbols first occur in the filtered rows, each listing right before
\* its own total.
C6_GroupsInFirstOccurrenceOrder ==
    DetailsDone =>
        /\ GroupsWellFormed
        /\ \A g, h \in 1..GroupsPrinted : g < h => FirstRowOf(g) < FirstRowOf(h)

\* C6 amended: the Details view prints the groups in ascending order of the
\* values of their symbols as pandas read the Symbol column (text by code
\* point, numbers by value when every symbol of the file is a number); each
\* group is its header, its rows in file order and then its own total, the
\* sum of the amounts of exactly these rows printed with two decimals.
C6_GroupsInSymbolOrder ==
    DetailsDone =>
        /\ GroupsWellFormed
        /\ \A g, h \in 1..GroupsPrinted : g < h => SymbolBefore(SymbolOf(g), SymbolOf(h))

\* A Details report of two groups whose symbols are numbers, the second one
\* printed being the first in the file and the first in the order of text.
C6_Witness ==
    /\ DetailsDone
    /\ GroupsPrinted = 2
    /\ NumericSymbols
    /\ FirstRowOf(2) < FirstRowOf(1)
    /\ StrLess(SymbolOf(2), SymbolOf(1))
    /\ ReadCents(GroupTotalLine(1).amt) # 0

----------------------------------------------------------------------------
(* Claims on errors *)

\* C7: a file that parses but lacks one of the columns Action, Symbol and
\* Amount ($) ends the invocation with the RuntimeError of an invalid
\* format, and no view is run.
C7_MissingColumnIsInvalidFormat ==
    (pc = "done" /\ file.kind = "csv" /\ file.header # Columns) =>
        (raised = "RuntimeError" /\ viewRun = "none")

\* C8: FileNotFoundError leaves dividend_csv_process exactly when nothing is
\* at the path, RuntimeError when the file is empty or cannot be parsed as
\* delimited text (the parser rejects it, or it is no text at all); in both
\* cases no view is called and nothing but the banner is printed.
C8_LoadErrorsPropagate ==
    pc # "idle" =>
        /\ (raised = "FileNotFoundError") <=> (file.kind = "absent")
        /\ file.kind \in {"empty", "malformed", "undecodable"} => raised = "RuntimeError"
        /\ file.kind \in {"absent", "empty", "malformed", "undecodable"} =>
              (pc = "done" /\ viewRun = "none" /\ stdout = <<Banner>>)

----------------------------------------------------------------------------
(* Claim on repeated invocations *)

\* C9: two invocations of one process with the same report, category and
\* symbol filter print the same and end the same, whatever ran before them,
\* and a report name selects the same view in every invocation.
C9_SameArgsSameOutput ==
    \A i, j \in 1..Len(history) :
        /\ history[i].args = history[j].args =>
              /\ history[i].stdout = history[j].stdout
              /\ history[i].raised = history[j].raised
        /\ (/\ history[i].args.report = history[j].args.report
            /\ history[i].view # "none" /\ history[j].view # "none") =>
              history[i].view = history[j].view

\* A report run first in the process and again after an invocation with
\* another report, which ran another view, both runs printing a total.
C9_Witness ==
    /\ Len(history) >= 3
    /\ history[1].args = history[3].args
    /\ history[2].args.report # history[1].args.report
    /\ history[2].view \notin {"none", history[1].view}
    /\ history[1].view = "sum"
    /\ \E n \in 1..Len(history[3].stdout) : history[3].stdout[n].k = "Total Amount for"

====
